---- MODULE Spec2Model ----
(***************************************************************************)
(* dragon/vm/theano/compile/function.py: the compilation of symbolic       *)
(* expressions into a GraphDef that is registered with the workspace.      *)
(*                                                                         *)
(* Python objects are modelled with an explicit heap: every OperatorDef    *)
(* created by the tensor layer lives at the address given by its operator  *)
(* index, the expression record of a tensor is the list of the addresses   *)
(* it holds (in the iteration order of the dict), and copy.deepcopy        *)
(* allocates new addresses.  Strings are TLA+ strings; a concatenation     *)
(* 'Graph_' + str(n) is the tuple <<"Graph_", n>>.                          *)
(*                                                                         *)
(* Left out: GraphDef_Device and GraphDef_Opt (they copy configuration     *)
(* options into fields no operation of this file reads back), the extra    *)
(* targets of a tensor, and the returned lambda (it only captures the      *)
(* graph name, the inputs and the outputs).                                *)
(***************************************************************************)
EXTENDS Integers, Sequences, FiniteSets, TLC

VARIABLES
    OP_IDX,             \* scope.py: the operator index GetOperatorName draws from
    TENSOR_IDX,         \* scope.py: the tensor index GetTensorName draws from
    tensors,            \* Tensor objects by name: expressions, grad_wrts
    heap,               \* OperatorDef objects by address
    made,               \* history: each OperatorDef as MakeOperatorDef built it
    PHASE_SCOPE,        \* scope.py: the phase override ('' when none is active)
    updater,            \* the BaseUpdater object (or NoUpdater before it is built)
    CURRENT_GRAPH_IDX,  \* ws.CURRENT_GRAPH_IDX
    graphs,             \* the GraphDefs handed to ws.CreateGraph, in order
    feeds,              \* the calls of ws.FeedTensor, in order
    calls,              \* history: the calls of function(), with their outcome
    pc,                 \* per thread: where its call of function() stands
    local               \* per thread: the graph_def.name it built

vars == <<OP_IDX, TENSOR_IDX, tensors, heap, made, PHASE_SCOPE, updater,
          CURRENT_GRAPH_IDX, graphs, feeds, calls, pc, local>>

(***************************************************************************)
(* Bounds                                                                  *)
(***************************************************************************)
MaxOps == 3
MaxOutputs == 2
MaxGivens == 1
MaxCalls == 2

Leaves == {"a", "x"}
None == "None"
ARRAY == "ndarray"
NumThreads == 2
Threads == 1..NumThreads

(***************************************************************************)
(* Helpers                                                                 *)
(***************************************************************************)
Range(s) == {s[i] : i \in 1..Len(s)}

Last(s) == s[Len(s)]

SeqsUpTo(S, n) == UNION {[1..m -> S] : m \in 0..n}

\* the permutations of a finite set, as sequences (an iteration order of a set)
Orders(S) == {s \in [1..Cardinality(S) -> S] : \A i, j \in 1..Cardinality(S) : s[i] = s[j] => i = j}

(***************************************************************************)
(* The tensor layer (dragon/core/tensor.py, dragon/core/scope.py)          *)
(***************************************************************************)
\* GetTensorName(): 'Tensor_' + str(idx)
TensorName(n) == <<"Tensor_0", "Tensor_1", "Tensor_2", "Tensor_3", "Tensor_4",
                   "Tensor_5", "Tensor_6", "Tensor_7", "Tensor_8", "Tensor_9">>[n + 1]

\* OrderedDict(d, **e) on the keys (lines 252, 272): the keys of d keep their
\* place, the new keys of e follow in e's order (the values are references to
\* the same OperatorDef objects, so overwriting an equal key changes nothing)
DictMerge(d, e) == d \o SelectSeq(e, LAMBDA k : k \notin Range(d))

RECURSIVE MergeAll(_, _)
MergeAll(acc, recs) ==
    IF recs = <<>> THEN acc ELSE MergeAll(DictMerge(acc, Head(recs)), Tail(recs))

\* Tensor.CreateOperator: the new tensor's expressions are its inputs'
\* expressions followed by the new operator, keyed by the operator index
CreateOperator(inputs) ==
    /\ OP_IDX < MaxOps
    /\ calls = <<>>
    /\ LET key == OP_IDX
           out == TensorName(TENSOR_IDX)
           op == [type |-> "Op", input |-> inputs, output |-> <<out>>]
           exprs == MergeAll(<<>>, [i \in 1..Len(inputs) |-> tensors[inputs[i]].expressions])
       IN /\ OP_IDX' = OP_IDX + 1
          /\ TENSOR_IDX' = TENSOR_IDX + 1
          /\ heap' = (key :> op) @@ heap
          /\ made' = (key :> op) @@ made
          /\ tensors' = (out :> [expressions |-> Append(exprs, key), grad_wrts |-> <<>>]) @@ tensors
    /\ UNCHANGED <<PHASE_SCOPE, updater, CURRENT_GRAPH_IDX, graphs, feeds, calls, pc, local>>

(***************************************************************************)
(* function.py                                                             *)
(***************************************************************************)
RECURSIVE SortedSeq(_)
SortedSeq(S) ==
    IF S = {} THEN <<>>
    ELSE LET m == CHOOSE x \in S : \A y \in S : x <= y
         IN <<m>> \o SortedSeq(S \ {m})

\* the list of keys in descending order, as sorted(..., reverse=True) gives it
SortedReverse(all_exprs) ==
    LET up == SortedSeq(Range(all_exprs))
    IN [i \in 1..Len(up) |-> up[Len(up) + 1 - i]]

\* line 260: sorted(all_exprs.items(), key=lambda d: d[0]), as the list of keys
Sorted(all_exprs) == SortedSeq(Range(all_exprs))

\* lines 249-254: the merge of the outputs' expression records
AllExprs(outputs) ==
    MergeAll(<<>>, [i \in 1..Len(outputs) |-> tensors[outputs[i]].expressions])

\* a copy of the list only, as copy.copy gives it: the same objects
ShallowCopy(h, refs) == [heap |-> h, refs |-> refs]

\* line 261: copy.deepcopy of the list of operators: new objects, new addresses
DeepCopy(h, refs) ==
    LET top == IF DOMAIN h = {} THEN 0 ELSE 1 + CHOOSE m \in DOMAIN h : \A k \in DOMAIN h : k <= m
        new == [i \in 1..Len(refs) |-> top + i]
    IN [heap |-> [a \in DOMAIN h \cup Range(new) |->
                    IF a \in DOMAIN h THEN h[a] ELSE h[refs[a - top]]],
        refs |-> new]

\* lines 268-274: name_dict, from the Tensor-valued replacements
NameDict(givens) ==
    LET olds == {givens[i].old : i \in {j \in 1..Len(givens) : givens[j].kind = "Tensor"}}
    IN [n \in olds |-> LET i == CHOOSE j \in 1..Len(givens) : givens[j].old = n
                       IN givens[i].new]

\* lines 271-276: external_input_ops, the replacements' operators (references)
ExternalInputOps(givens) ==
    MergeAll(<<>>, [i \in 1..Len(givens) |->
        IF givens[i].kind = "Tensor" THEN tensors[givens[i].new].expressions ELSE <<>>])

\* the extension, then the deletion of the second half instead of the first
RewriteOpKeepFirst(op, name_dict) ==
    LET extended == op.input \o
            [i \in 1..Len(op.input) |->
                IF op.input[i] \in DOMAIN name_dict THEN name_dict[op.input[i]]
                ELSE op.input[i]]
    IN [op EXCEPT !.input = SubSeq(extended, 1, Len(extended) \div 2)]

\* lines 278-280: op.input.extend([...]); del op.input[:int(len(op.input)/2)]
RewriteOp(op, name_dict) ==
    LET extended == op.input \o
            [i \in 1..Len(op.input) |->
                IF op.input[i] \in DOMAIN name_dict THEN name_dict[op.input[i]]
                ELSE op.input[i]]
    IN [op EXCEPT !.input = SubSeq(extended, (Len(extended) \div 2) + 1, Len(extended))]

\* GraphGradientMaker.Make: the forward operators as given, and one backward
\* operator per forward operator, last first
GradOps(forward) ==
    [i \in 1..Len(forward) |->
        [type |-> "OpGradient",
         input |-> forward[Len(forward) + 1 - i].output,
         output |-> forward[Len(forward) + 1 - i].input]]

\* line 244: 'Graph_' + str(ws.CURRENT_GRAPH_IDX)
GraphName(n) == <<"Graph_", n>>

\* dict(d, **e): a key of both takes e's value
DictUpdate(d, e) ==
    [k \in DOMAIN d \cup DOMAIN e |-> IF k \in DOMAIN e THEN e[k] ELSE d[k]]

\* str.upper() on the phase names
Upper(s) ==
    CASE s = "train" -> "TRAIN"
      [] s = "test" -> "TEST"
      [] OTHER -> s

\* the pairs of the first target only
AllPairsFirst(targets) ==
    {<<targets[1], tensors[targets[1]].grad_wrts[j]>> :
        j \in 1..Len(tensors[targets[1]].grad_wrts)}

\* GraphDef_Grad, lines 39-42: the set of (cost, wrt) pairs
AllPairs(targets) ==
    UNION {{<<targets[i], tensors[targets[i]].grad_wrts[j]>> :
                j \in 1..Len(tensors[targets[i]].grad_wrts)} : i \in 1..Len(targets)}

\* GraphDef_Grad, lines 44-48: one GradientTarget per pair, in the set's
\* iteration order
GraphDef_Grad(order) ==
    [i \in 1..Len(order) |-> [cost |-> order[i][1], wrt |-> order[i][2]]]

\* the phase with the gradients looked at first, the override second
GraphDef_PhaseGradsFirst(targets) ==
    LET phase == IF \E i \in 1..Len(targets) : Len(tensors[targets[i]].grad_wrts) > 0
                 THEN "TRAIN"
                 ELSE IF PHASE_SCOPE # "" THEN Upper(PHASE_SCOPE) ELSE "TEST"
    IN <<[name |-> "phase", value |-> phase]>>

\* GraphDef_Phase: the 'phase' argument
GraphDef_Phase(targets) ==
    LET phase == IF PHASE_SCOPE # "" THEN Upper(PHASE_SCOPE)
                 ELSE IF \E i \in 1..Len(targets) : Len(tensors[targets[i]].grad_wrts) > 0
                      THEN "TRAIN" ELSE "TEST"
    IN <<[name |-> "phase", value |-> phase]>>

\* GraphDef_Update, lines 99-101: the prefix and the shared arguments
Prefix(graph_name) == graph_name \o <<"_">>

ExtraArguments(u, graph_name) ==
    [k \in DOMAIN u.extra_kwargs \cup {"domain"} |->
        IF k = "domain" THEN Prefix(graph_name) ELSE u.extra_kwargs[k]]

\* GraphDef_Update, line 121: kwargs = dict(arguments, **extra_arguments)
Kwargs(arguments, extra_arguments) == DictUpdate(arguments, extra_arguments)

\* GraphDef_Update, lines 119-129: one UpdateTarget per tuple; its name is the
\* operator name GetOperatorName() returns
UpdateTargets(u, graph_name) ==
    [i \in 1..Len(u.tuples) |->
        [type |-> u.type,
         name |-> <<"Op_", OP_IDX + i - 1>>,
         tensor |-> u.tuples[i][1],
         arg |-> Kwargs(u.tuples[i][2], ExtraArguments(u, graph_name))]]

\* GraphDef_Update, lines 105-106: the hyper-parameters fed under the prefix
HyperFeeds(u, graph_name, order) ==
    [i \in 1..Len(order) |->
        [tensor |-> Prefix(graph_name) \o <<order[i]>>, ndarray |-> u.hyper_params[order[i]]]]

\* GraphDef_Update, lines 109-117: the arguments of an active parallel group
ParallelArguments(parallel) ==
    IF parallel
    THEN <<[name |-> "parallel_mode", value |-> "MPI"], [name |-> "comm", value |-> "comm"],
           [name |-> "group", value |-> "group"], [name |-> "root", value |-> "root"]>>
    ELSE <<>>

\* line 275: ws.FeedTensor(new_tensor, GetTensorName()), once per array-valued
\* replacement: FeedTensor's first parameter is the tensor, its second the value
ArrayFeeds(givens) ==
    LET arrays == SelectSeq(givens, LAMBDA g : g.kind = "ndarray")
    IN [j \in 1..Len(arrays) |->
            [tensor |-> arrays[j].new, ndarray |-> TensorName(TENSOR_IDX + j - 1)]]

\* the counter left as it is
SameGraphIdx(n) == n

\* line 245: ws.CURRENT_GRAPH_IDX += 1
NextGraphIdx(n) == n + 1

\* an entry of the history of calls: the arguments as given, and the outcome
\* (graph: the place in graphs of the graph the call registered, 0 for none)
CallRecord(arg, givens, upd, raised) ==
    [outputs |-> arg, givens |-> givens, updater |-> upd, raised |-> raised,
     graph |-> IF raised THEN 0 ELSE Len(graphs) + 1]

\* lines 239-303: the compilation proper, after the argument check
Compile(arg, outputs, givens, upd, parallel) ==
    LET name == GraphName(CURRENT_GRAPH_IDX)
        existing_grads == \E i \in 1..Len(outputs) : Len(tensors[outputs[i]].grad_wrts) > 0
        copy == DeepCopy(heap, Sorted(AllExprs(outputs)))
        name_dict == NameDict(givens)
        \* lines 277-280, on the objects forward_ops refers to
        h2 == IF givens = <<>> THEN copy.heap
              ELSE [a \in DOMAIN copy.heap |->
                        IF a \in Range(copy.refs) THEN RewriteOp(copy.heap[a], name_dict)
                        ELSE copy.heap[a]]
        forward_refs == IF givens = <<>> THEN copy.refs
                        ELSE ExternalInputOps(givens) \o copy.refs
        forward_ops == [i \in 1..Len(forward_refs) |-> h2[forward_refs[i]]]
        grad_ops == IF existing_grads THEN GradOps(forward_ops) ELSE <<>>
        u_target == IF Len(outputs) = 0 /\ upd # None
                    THEN UpdateTargets(updater, name) ELSE <<>>
    IN /\ CURRENT_GRAPH_IDX' = NextGraphIdx(CURRENT_GRAPH_IDX)
       /\ heap' = [a \in DOMAIN heap |-> h2[a]]
       /\ TENSOR_IDX' = TENSOR_IDX + Len(ArrayFeeds(givens))
       /\ OP_IDX' = OP_IDX + Len(u_target)
       /\ updater' = IF Len(outputs) = 0 /\ upd # None
                     THEN [updater EXCEPT !.prefix = Prefix(name),
                                          !.extra_kwargs = ExtraArguments(updater, name)]
                     ELSE updater
       /\ \E order \in Orders(IF Len(outputs) > 0 THEN AllPairs(outputs) ELSE {}),
             horder \in Orders(IF Len(outputs) = 0 /\ upd # None
                               THEN DOMAIN updater.hyper_params ELSE {}) :
            /\ graphs' = Append(graphs,
                    [name |-> name,
                     op |-> forward_ops \o grad_ops,
                     target |-> outputs,
                     g_target |-> GraphDef_Grad(order),
                     u_target |-> u_target,
                     arg |-> IF Len(outputs) > 0 THEN GraphDef_Phase(outputs)
                             ELSE IF upd # None THEN ParallelArguments(parallel)
                             ELSE <<>>])
            /\ feeds' = feeds \o ArrayFeeds(givens) \o
                    (IF Len(outputs) = 0 /\ upd # None
                     THEN HyperFeeds(updater, name, horder) ELSE <<>>)
       /\ calls' = Append(calls, CallRecord(arg, givens, upd, FALSE))
       /\ UNCHANGED <<tensors, made, PHASE_SCOPE, pc, local>>

\* lines 232-234 (and 240): outputs as a list
Wrap(arg) ==
    CASE arg.kind = "None" -> <<>>
      [] arg.kind = "Tensor" -> <<arg.value>>
      [] OTHER -> arg.value

\* the check with `or` in the place of `and`
ArgumentConflictAny(outputs, upd) == Len(outputs) > 0 \/ upd # None

\* line 236
ArgumentConflict(outputs, upd) == Len(outputs) > 0 /\ upd # None

\* function(inputs, outputs, givens, updater): inputs is only captured by the
\* returned lambda; givens None and givens {} are both the empty mapping
function(arg, givens, upd, parallel) ==
    /\ Len(calls) < MaxCalls
    /\ upd # None => updater.type # ""
    /\ IF ArgumentConflict(Wrap(arg), upd)
       THEN /\ calls' = Append(calls, CallRecord(arg, givens, upd, TRUE))
            /\ UNCHANGED <<OP_IDX, TENSOR_IDX, tensors, heap, made, PHASE_SCOPE, updater,
                           CURRENT_GRAPH_IDX, graphs, feeds, pc, local>>
       ELSE Compile(arg, Wrap(arg), givens, upd, parallel)

(***************************************************************************)
(* Inputs of function()                                                    *)
(***************************************************************************)
OutputLists == SeqsUpTo(DOMAIN tensors, MaxOutputs)

Replacements ==
    {[old |-> o, kind |-> "Tensor", new |-> n] : o \in Leaves, n \in DOMAIN tensors}
    \cup {[old |-> o, kind |-> "ndarray", new |-> ARRAY] : o \in Leaves}

\* a dict has each key once; a replacement of a tensor by itself is left out
GivensMaps ==
    {g \in SeqsUpTo(Replacements, MaxGivens) :
        /\ \A i, j \in 1..Len(g) : g[i].old = g[j].old => i = j
        /\ \A i \in 1..Len(g) : g[i].new # g[i].old}

NoUpdater == [type |-> "", prefix |-> <<>>, extra_kwargs |-> <<>>, hyper_params |-> <<>>,
              tuples |-> <<>>]

Init ==
    /\ OP_IDX = 0
    /\ TENSOR_IDX = 0
    /\ tensors = [n \in Leaves |-> [expressions |-> <<>>, grad_wrts |-> <<>>]]
    /\ heap = <<>>
    /\ made = <<>>
    /\ PHASE_SCOPE = ""
    /\ updater = NoUpdater
    /\ CURRENT_GRAPH_IDX = 0
    /\ graphs = <<>>
    /\ feeds = <<>>
    /\ calls = <<>>
    /\ pc = [t \in Threads |-> "idle"]
    /\ local = [t \in Threads |-> <<>>]

\* the operators the expressions are built from: one or two inputs
OperatorInputs ==
    {s \in SeqsUpTo(DOMAIN tensors, 2) : Len(s) = 1 \/ (Len(s) = 2 /\ s[1] # s[2])}

Build == \E inputs \in OperatorInputs : CreateOperator(inputs)

List(s) == [kind |-> "list", value |-> s]

CompileOutputs ==
    /\ calls = <<>>
    /\ \E outputs \in OutputLists, givens \in GivensMaps :
            function(List(outputs), givens, None, FALSE)

\* the same outputs compiled again, without givens or with the same givens
Recompile ==
    /\ calls # <<>>
    /\ \E givens \in {<<>>, Last(calls).givens} :
            function(Last(calls).outputs, givens, None, FALSE)

\* BaseUpdater(**kwargs): the shared arguments, one hyper-parameter
NewUpdater(extra) ==
    /\ calls = <<>>
    /\ updater = NoUpdater
    /\ updater' = [type |-> "SGDUpdate", prefix |-> <<>>, extra_kwargs |-> extra,
                   hyper_params |-> [k \in {"base_lr"} |-> 1], tuples |-> <<>>]
    /\ UNCHANGED <<OP_IDX, TENSOR_IDX, tensors, heap, made, PHASE_SCOPE,
                   CURRENT_GRAPH_IDX, graphs, feeds, calls, pc, local>>

(***************************************************************************)
(* Gradient requests and the phase override (dragon/vm/theano/gradient.py, *)
(* dragon/core/scope.py)                                                   *)
(***************************************************************************)
MaxWrts == 2

Phases == {"", "TEST", "train"}

NumWrts ==
    Cardinality(UNION {{<<t, i>> : i \in 1..Len(tensors[t].grad_wrts)} : t \in DOMAIN tensors})

\* T.grad(cost, wrt): cost.grad_wrts.append(wrt.name)
grad(cost, wrt) ==
    /\ calls = <<>>
    /\ NumWrts < MaxWrts
    /\ tensors' = [tensors EXCEPT ![cost].grad_wrts = Append(@, wrt)]
    /\ UNCHANGED <<OP_IDX, TENSOR_IDX, heap, made, PHASE_SCOPE, updater,
                   CURRENT_GRAPH_IDX, graphs, feeds, calls, pc, local>>

\* entering or leaving a phase_scope
phase_scope(phase) ==
    /\ calls = <<>>
    /\ PHASE_SCOPE # phase
    /\ PHASE_SCOPE' = phase
    /\ UNCHANGED <<OP_IDX, TENSOR_IDX, tensors, heap, made, updater,
                   CURRENT_GRAPH_IDX, graphs, feeds, calls, pc, local>>

\* BaseUpdater(): no shared arguments, no tuples
PlainUpdater == NewUpdater(<<>>)

\* expressions of one-input operators
BuildChain == \E t \in DOMAIN tensors : CreateOperator(<<t>>)

RequestGrad == \E cost \in DOMAIN tensors \ Leaves, wrt \in Leaves : grad(cost, wrt)

SetPhase == \E phase \in Phases : phase_scope(phase)

CompileTargets ==
    /\ calls = <<>>
    /\ \E outputs \in OutputLists, upd \in {None, "updater"} :
            function(List(outputs), <<>>, upd, FALSE)

NextGrad == BuildChain \/ RequestGrad \/ SetPhase \/ PlainUpdater \/ CompileTargets

SpecGrad == Init /\ [][NextGrad]_vars

(***************************************************************************)
(* The updater (dragon/updaters.py)                                        *)
(***************************************************************************)
MaxTuples == 2

ArgValues == {1, 2}

Dicts(K, V) == UNION {[D -> V] : D \in SUBSET K}

\* updater.append(pair, lr_mult, decay_mult): one more (tensors, arguments) tuple
UpdaterAppend(tensor_group, arguments) ==
    /\ calls = <<>>
    /\ updater # NoUpdater
    /\ Len(updater.tuples) < MaxTuples
    /\ updater' = [updater EXCEPT !.tuples = Append(@, <<tensor_group, arguments>>)]
    /\ UNCHANGED <<OP_IDX, TENSOR_IDX, tensors, heap, made, PHASE_SCOPE,
                   CURRENT_GRAPH_IDX, graphs, feeds, calls, pc, local>>

MakeUpdater == \E extra \in Dicts({"scale_gradient"}, {1}) : NewUpdater(extra)

AddTuple ==
    \E p \in Leaves, arguments \in Dicts({"lr_mult", "scale_gradient"}, ArgValues) :
        UpdaterAppend(<<p, "grad">>, arguments)

NoneArg == [kind |-> "None", value |-> <<>>]

CompileUpdate == \E parallel \in BOOLEAN : function(NoneArg, <<>>, "updater", parallel)

NextUpd == MakeUpdater \/ AddTuple \/ CompileUpdate

SpecUpd == Init /\ [][NextUpd]_vars

(***************************************************************************)
(* Any sequence of calls, failing ones included                            *)
(***************************************************************************)
OutputArgs ==
    {NoneArg} \cup {[kind |-> "Tensor", value |-> t] : t \in DOMAIN tensors}
    \cup {List(s) : s \in OutputLists}

CallAny ==
    \E arg \in OutputArgs, upd \in {None, "updater"} : function(arg, <<>>, upd, FALSE)

NextCalls == MakeUpdater \/ CallAny

SpecCalls == Init /\ [][NextCalls]_vars

(***************************************************************************)
(* Concurrent calls of function() with no arguments: the read of the       *)
(* counter (line 244), its increment (line 245) and the registration       *)
(* (line 303) are separate steps of a thread                               *)
(***************************************************************************)
MaxStarted == 4

Started == Len(graphs) + Cardinality({t \in Threads : pc[t] # "idle"})

ReadIdx(t) ==
    /\ pc[t] = "idle"
    /\ Started < MaxStarted
    /\ local' = [local EXCEPT ![t] = GraphName(CURRENT_GRAPH_IDX)]
    /\ pc' = [pc EXCEPT ![t] = "named"]
    /\ UNCHANGED <<OP_IDX, TENSOR_IDX, tensors, heap, made, PHASE_SCOPE, updater,
                   CURRENT_GRAPH_IDX, graphs, feeds, calls>>

IncrIdx(t) ==
    /\ pc[t] = "named"
    /\ CURRENT_GRAPH_IDX' = NextGraphIdx(CURRENT_GRAPH_IDX)
    /\ pc' = [pc EXCEPT ![t] = "numbered"]
    /\ UNCHANGED <<OP_IDX, TENSOR_IDX, tensors, heap, made, PHASE_SCOPE, updater,
                   graphs, feeds, calls, local>>

CreateGraph(t) ==
    /\ pc[t] = "numbered"
    /\ graphs' = Append(graphs, [name |-> local[t], op |-> <<>>, target |-> <<>>,
                                 g_target |-> <<>>, u_target |-> <<>>, arg |-> <<>>])
    /\ calls' = Append(calls, CallRecord(NoneArg, <<>>, None, FALSE))
    /\ pc' = [pc EXCEPT ![t] = "idle"]
    /\ local' = [local EXCEPT ![t] = <<>>]
    /\ UNCHANGED <<OP_IDX, TENSOR_IDX, tensors, heap, made, PHASE_SCOPE, updater,
                   CURRENT_GRAPH_IDX, feeds>>

NextConc == \E t \in Threads : ReadIdx(t) \/ IncrIdx(t) \/ CreateGraph(t)

SpecConc == Init /\ [][NextConc]_vars

Next == Build \/ CompileOutputs \/ Recompile

Spec == Init /\ [][Next]_vars

(***************************************************************************)
(* Properties                                                              *)
(***************************************************************************)
\* the calls that compiled a graph, and what they compiled
Compiled == {i \in 1..Len(calls) : ~calls[i].raised}

Outs(i) == Wrap(calls[i].outputs)

GraphOf(i) == graphs[calls[i].graph]

\* the operators the requested outputs depend on, and their merged, sorted list
Union(outs) == UNION {Range(tensors[outs[m]].expressions) : m \in 1..Len(outs)}

Merged(outs) == Sorted(AllExprs(outs))

\* every operator of the list comes after a producer of each of its inputs
\* that the list produces at all
TopoValid(ops) ==
    \A i \in 1..Len(ops) : \A n \in Range(ops[i].input) :
        (\E j \in 1..Len(ops) : n \in Range(ops[j].output))
            => \E j \in 1..(i - 1) : n \in Range(ops[j].output)

\* the calls that raised are the calls with outputs and an updater
RaisedIff ==
    \A i \in 1..Len(calls) :
        calls[i].raised <=> (Len(Outs(i)) > 0 /\ calls[i].updater # None)

\* C1: function() raises the argument-conflict error exactly when the wrapped
\* outputs are non-empty and an updater is given; a call that raises registers
\* no graph, feeds no tensor and leaves CURRENT_GRAPH_IDX as it was
C1_ArgumentConflict ==
    /\ []RaisedIff
    /\ [][(Len(calls') = Len(calls) + 1 /\ Last(calls').raised)
            => /\ graphs' = graphs
               /\ feeds' = feeds
               /\ CURRENT_GRAPH_IDX' = CURRENT_GRAPH_IDX]_vars

\* a single, unwrapped output and an updater raise, after an update-only call
\* that registered a graph and fed the hyper-parameter
C1_Witness ==
    /\ Len(calls) = 2
    /\ ~calls[1].raised /\ calls[1].updater # None /\ Len(feeds) > 0
    /\ calls[2].raised /\ calls[2].outputs.kind = "Tensor"
    /\ Len(graphs) = 1 /\ CURRENT_GRAPH_IDX = 1

\* the numbers in the names of the registered graphs increase
NamesIncrease ==
    \A i, j \in 1..Len(graphs) :
        i < j => /\ graphs[i].name[2] < graphs[j].name[2]
                 /\ graphs[i].name # graphs[j].name

\* C2: every call that passes the check names its graph Graph_<n>, n the counter
\* at that moment, and adds exactly 1 to the counter; the numbers of the graphs
\* registered one after the other increase strictly and no two names are equal
C2_GraphNames ==
    /\ []NamesIncrease
    /\ [][Len(graphs') = Len(graphs) + 1
            => /\ Last(graphs').name = <<"Graph_", CURRENT_GRAPH_IDX>>
               /\ CURRENT_GRAPH_IDX' = CURRENT_GRAPH_IDX + 1]_vars

C2_Witness ==
    /\ Len(graphs) = 2
    /\ \E i \in 1..Len(calls) : calls[i].updater # None /\ ~calls[i].raised

\* C3: the merged, sorted forward list holds every operator of the union of the
\* outputs' expression records exactly once, and every operator after the
\* operators that produce its inputs; without givens it is the compiled list
C3_MergedOnceInOrder ==
    \A i \in Compiled :
        LET keys == Merged(Outs(i))
        IN /\ Range(keys) = Union(Outs(i))
           /\ \A k \in Union(Outs(i)) : Cardinality({j \in 1..Len(keys) : keys[j] = k}) = 1
           /\ \A j \in 1..Len(keys) : \A n \in Range(made[keys[j]].input) :
                \A k \in DOMAIN made :
                    n \in Range(made[k].output) => \E m \in 1..(j - 1) : keys[m] = k
           /\ calls[i].givens = <<>>
                => GraphOf(i).op = [j \in 1..Len(keys) |-> made[keys[j]]]

\* two outputs whose records overlap, neither holding the other, merged in an
\* order that is not the order of the keys
C3_Witness ==
    \E i \in Compiled :
        /\ Len(Outs(i)) = 2 /\ calls[i].givens = <<>>
        /\ LET r1 == Range(tensors[Outs(i)[1]].expressions)
               r2 == Range(tensors[Outs(i)[2]].expressions)
           IN r1 \cap r2 # {} /\ r1 \ r2 # {} /\ r2 \ r1 # {}
        /\ AllExprs(Outs(i)) # Merged(Outs(i))
        /\ Len(GraphOf(i).op) = 3

\* the calls that compiled with a single variable-for-variable replacement
VariableGivens ==
    {i \in Compiled : Len(calls[i].givens) = 1 /\ calls[i].givens[1].kind = "Tensor"}

\* those of them whose requested outputs hold an operator that reads the
\* replaced variable
VariableGivensRead ==
    {i \in VariableGivens :
        \E k \in Union(Outs(i)) : calls[i].givens[1].old \in Range(made[k].input)}

ArrayGivens ==
    {i \in Compiled :
        /\ Len(calls[i].givens) = 1 /\ calls[i].givens[1].kind = "ndarray"
        /\ \E k \in Union(Outs(i)) : calls[i].givens[1].old \in Range(made[k].input)}

\* C5: the array is fed to the value store under a freshly generated name, and
\* every operator that read the original variable reads that name instead
C5_ArraySubstituted ==
    \A i \in ArrayGivens :
        LET a == calls[i].givens[1].old
            keys == Merged(Outs(i))
            ops == GraphOf(i).op
        IN \E f \in 1..Len(feeds) :
            /\ feeds[f].ndarray = ARRAY
            /\ feeds[f].tensor \notin DOMAIN tensors
            /\ Len(ops) = Len(keys)
            /\ \A j \in 1..Len(ops) :
                ops[j].input = [m \in 1..Len(made[keys[j]].input) |->
                    IF made[keys[j]].input[m] = a THEN feeds[f].tensor
                    ELSE made[keys[j]].input[m]]

\* C10: a compilation leaves every operator of every expression record as it
\* was built; the same outputs compiled again with the same givens give the
\* same operators in the same order, and a compilation without givens gives
\* the operators as built, whatever was compiled before
C10_RecordsUnchanged ==
    /\ heap = made
    /\ \A t \in DOMAIN tensors : Range(tensors[t].expressions) \subseteq DOMAIN heap
    /\ \A i, j \in Compiled :
        (Outs(i) = Outs(j) /\ calls[i].givens = calls[j].givens)
            => GraphOf(i).op = GraphOf(j).op
    /\ \A i \in Compiled :
        calls[i].givens = <<>>
            => GraphOf(i).op = [j \in 1..Len(Merged(Outs(i))) |-> made[Merged(Outs(i))[j]]]

\* a compilation that rewrote an input, followed by one of the same outputs
\* without givens
C10_Witness ==
    /\ Len(calls) = 2 /\ Compiled = {1, 2}
    /\ 1 \in VariableGivens
    /\ calls[2].givens = <<>>
    /\ \E j \in 1..Len(graphs[1].op) :
        calls[1].givens[1].new \in Range(graphs[1].op[j].input)
    /\ graphs[1].op # graphs[2].op

\* the (output, wrt) pairs requested through the outputs of a call
WantedPairs(outs) ==
    UNION {{<<outs[m], tensors[outs[m]].grad_wrts[n]>> :
                n \in 1..Len(tensors[outs[m]].grad_wrts)} : m \in 1..Len(outs)}

\* C7: with at least one output, the gradient targets of the compiled graph are
\* the pairs (output name, wrt) of the outputs' grad_wrts, each once; with no
\* grad_wrts at all there is no gradient target and no backward operator
C7_GradientTargets ==
    \A i \in Compiled :
        Len(Outs(i)) > 0 =>
            LET g == GraphOf(i)
                want == WantedPairs(Outs(i))
            IN /\ {<<g.g_target[j].cost, g.g_target[j].wrt>> : j \in 1..Len(g.g_target)} = want
               /\ Len(g.g_target) = Cardinality(want)
               /\ want = {} =>
                    /\ g.g_target = <<>>
                    /\ Len(g.op) = Cardinality(Union(Outs(i)))
                    /\ \A j \in 1..Len(g.op) : g.op[j].type # "OpGradient"

\* the same output requested twice, its grad_wrts listing the same wrt twice
C7_Witness ==
    \E i \in Compiled :
        /\ Len(Outs(i)) = 2 /\ Outs(i)[1] = Outs(i)[2]
        /\ Len(tensors[Outs(i)[1]].grad_wrts) = 2
        /\ tensors[Outs(i)[1]].grad_wrts[1] = tensors[Outs(i)[1]].grad_wrts[2]
        /\ Len(GraphOf(i).g_target) = 1
        /\ \E j \in 1..Len(GraphOf(i).op) : GraphOf(i).op[j].type = "OpGradient"

PhaseTags(g) == {j \in 1..Len(g.arg) : g.arg[j].name = "phase"}

\* C8 as stated: every compiled graph, whatever the number of outputs, carries
\* exactly one phase tag: the override when one is active, else TRAIN when an
\* output has grad_wrts, else TEST
C8_OnePhaseTagAlways ==
    \A i \in Compiled :
        LET g == GraphOf(i)
        IN /\ Cardinality(PhaseTags(g)) = 1
           /\ \A j \in PhaseTags(g) :
                g.arg[j].value =
                    IF PHASE_SCOPE # "" THEN PHASE_SCOPE
                    ELSE IF WantedPairs(Outs(i)) # {} THEN "TRAIN" ELSE "TEST"

\* C8 as amended: a graph compiled for at least one output carries exactly one
\* phase tag: the override in upper case when one is active, else TRAIN when
\* an output has grad_wrts, else TEST; a graph compiled for no output carries
\* no phase tag
C8_PhaseTagWithOutputs ==
    \A i \in Compiled :
        LET g == GraphOf(i)
        IN IF Len(Outs(i)) = 0 THEN PhaseTags(g) = {}
           ELSE /\ Cardinality(PhaseTags(g)) = 1
                /\ \A j \in PhaseTags(g) :
                    g.arg[j].value =
                        CASE PHASE_SCOPE = "train" -> "TRAIN"
                          [] PHASE_SCOPE = "TEST" -> "TEST"
                          [] PHASE_SCOPE = "" /\ WantedPairs(Outs(i)) # {} -> "TRAIN"
                          [] OTHER -> "TEST"

\* an output with grad_wrts compiled under the TEST override
C8_Witness ==
    \E i \in Compiled :
        /\ Len(Outs(i)) > 0
        /\ WantedPairs(Outs(i)) # {}
        /\ PHASE_SCOPE = "TEST"
        /\ \E j \in PhaseTags(GraphOf(i)) : GraphOf(i).arg[j].value = "TEST"

\* C6: an update-only compilation carries one update target per tuple of the
\* updater, in order, with the tuple's tensors and the updater's type; its
\* arguments are the tuple's own and the shared ones ('domain' included), and
\* a key of both keeps the tuple's own value
C6_UpdateTargets ==
    \A i \in Compiled :
        calls[i].updater # None =>
            LET g == GraphOf(i)
            IN /\ Len(g.u_target) = Len(updater.tuples)
               /\ \A j \in 1..Len(g.u_target) :
                    LET own == updater.tuples[j][2]
                        u == g.u_target[j]
                    IN /\ u.tensor = updater.tuples[j][1]
                       /\ u.type = updater.type
                       /\ DOMAIN u.arg = DOMAIN own \cup DOMAIN updater.extra_kwargs
                       /\ u.arg["domain"] = g.name \o <<"_">>
                       /\ \A k \in DOMAIN own : u.arg[k] = own[k]
                       /\ \A k \in DOMAIN updater.extra_kwargs \ (DOMAIN own \cup {"domain"}) :
                            u.arg[k] = updater.extra_kwargs[k]

\* C9: with calls interleaved between the read of the counter and its
\* increment, no two calls hold the same graph name, and the counter has
\* advanced once per call that is past the naming step
C9_ConcurrentNames ==
    /\ \A s, t \in Threads :
        (s # t /\ pc[s] # "idle" /\ pc[t] # "idle") => local[s] # local[t]
    /\ \A t \in Threads : \A i \in 1..Len(graphs) :
        pc[t] # "idle" => local[t] # graphs[i].name
    /\ \A i, j \in 1..Len(graphs) : i # j => graphs[i].name # graphs[j].name
    /\ CURRENT_GRAPH_IDX = Len(graphs) + Cardinality({t \in Threads : pc[t] = "numbered"})

====
